---- MODULE Spec2Model ----
(***************************************************************************)
(* A model of aetycoon's property descriptors (src/__init__.py) and of the *)
(* prettydata formatter (src/prettydata/__init__.py).                      *)
(*                                                                         *)
(* Four specifications, one per component:                                 *)
(*   Spec        one model instance with a source property, a              *)
(*               TransformProperty on it and a DerivedProperty             *)
(*   SpecChoice  make_choice_property and one ChoiceProperty instance      *)
(*   SpecDomain  one model instance with a CurrentDomainProperty           *)
(*   SpecPretty  prettify on nested dict / list / tuple / scalar data      *)
(***************************************************************************)
EXTENDS Integers, Sequences, FiniteSets, TLC

VARIABLES
  \* ---- TransformProperty / DerivedProperty ----
  source_attr,       \* the instance's value of the source property
  orig_attr,         \* instance attribute '_ORIGINAL' + _attr_name(), or Absent
  transformed_attr,  \* instance attribute _attr_name(), or Absent
  transform_func,    \* the function given to TransformProperty
  derive_func,       \* the function given to DerivedProperty
  t_op,              \* the last operation on the instance
  t_result,          \* what the last operation returned or raised
  t_invoked,         \* whether the last operation called transform_func
  held,              \* the values the source property has held so far
  \* ---- ChoiceProperty ----
  choices_arg,       \* the `choices` argument given to make_choice_property
  choice_cls,        \* what make_choice_property returned or raised
  c_pc,              \* "start", "failed", "built" (class only) or "instance"
  c_index,           \* the integer stored on the instance by db.Property.__set__
  c_assigned,        \* the value of the last assignment to the property
  c_op,              \* the last operation
  c_result,          \* what the last operation returned or raised
  \* ---- CurrentDomainProperty ----
  http_host,         \* os.environ['HTTP_HOST']
  is_admin,          \* users.is_current_user_admin()
  allow_read,        \* the property's allow_read flag
  allow_write,       \* the property's allow_write flag
  domain_attr,       \* the instance's value of the domain property
  persisted,         \* the domain of the entity in the datastore, "" before a put
  d_op,              \* the last operation
  d_result,          \* what the last operation returned or raised
  \* ---- prettydata ----
  data,              \* the value given to prettify
  data2,             \* an equal value whose mappings store their entries in
                     \* another order
  p_depth,           \* nesting depth of data
  p_pc,              \* "build" or "done"
  out,               \* prettify(data)
  out2               \* prettify(data2)

tvars == <<source_attr, orig_attr, transformed_attr, transform_func,
           derive_func, t_op, t_result, t_invoked, held>>

cvars == <<choices_arg, choice_cls, c_pc, c_index, c_assigned, c_op, c_result>>

dvars == <<http_host, is_admin, allow_read, allow_write, domain_attr,
           persisted, d_op, d_result>>

pvars == <<data, data2, p_depth, p_pc, out, out2>>

vars == <<tvars, cvars, dvars, pvars>>

(***************************************************************************)
(* Python values of the source property.  A value is a type tag and a      *)
(* number; None is its own value.  bool is a subclass of int in Python:    *)
(* True == 1 although they are different values.                           *)
(***************************************************************************)
None == [t |-> "NoneType", n |-> 0]
Absent == [t |-> "absent", n |-> 0]
SourceValues ==
  {None, [t |-> "int", n |-> 0], [t |-> "int", n |-> 1], [t |-> "bool", n |-> 1]}
Outputs == {[t |-> "int", n |-> 10], [t |-> "int", n |-> 11]}

\* Python's == on these values
PyEq(a, b) ==
  IF a.t = "NoneType" \/ b.t = "NoneType" THEN a.t = b.t ELSE a.n = b.n

\* getattr(obj, name, default)
GetAttrDefault(attr, default) == IF attr = Absent THEN default ELSE attr

Returned(v) == [kind |-> "return", val |-> v]
Raised(e) == [kind |-> e, val |-> None]
NoResult == [kind |-> "none", val |-> None]

InitTransform ==
  /\ source_attr \in SourceValues
  /\ orig_attr = Absent
  /\ transformed_attr = Absent
  /\ transform_func \in [SourceValues -> Outputs]
  /\ derive_func \in {[v \in SourceValues |-> [t |-> "int", n |-> 10 + v.n]],
                      [v \in SourceValues |-> [t |-> "int", n |-> 11 - v.n]]}
  /\ t_op = "init"
  /\ t_result = NoResult
  /\ t_invoked = FALSE
  /\ held = {source_attr}

\* db.Property.__set__ of the source property: instance.source = v
SetSource(v) ==
  /\ source_attr' = v
  /\ held' = held \cup {v}
  /\ t_op' = "set_source"
  /\ t_result' = NoResult
  /\ t_invoked' = FALSE
  /\ UNCHANGED <<orig_attr, transformed_attr, transform_func, derive_func>>

\* a bug _TransformProperty.__get__ could have: the cache is never used
CacheHitNever(last_val, current_val) == FALSE

\* the test `last_val == current_val` of _TransformProperty.__get__
CacheHit(last_val, current_val) == PyEq(last_val, current_val)

\* what _TransformProperty.__get__ returns or raises in the current state
TransformRead ==
  LET last_val == GetAttrDefault(orig_attr, None)
      current_val == source_attr
  IN IF CacheHit(last_val, current_val)
     THEN IF transformed_attr = Absent
          THEN Raised("AttributeError")
          ELSE Returned(transformed_attr)
     ELSE Returned(transform_func[current_val])

\* _TransformProperty.__get__: value = instance.transform
TransformGet ==
  LET last_val == GetAttrDefault(orig_attr, None)
      current_val == source_attr
  IN /\ t_op' = "get_transform"
     /\ t_result' = TransformRead
     /\ IF CacheHit(last_val, current_val)
        THEN /\ t_invoked' = FALSE
             /\ UNCHANGED <<orig_attr, transformed_attr>>
        ELSE /\ orig_attr' = current_val
             /\ transformed_attr' = transform_func[current_val]
             /\ t_invoked' = TRUE
     /\ UNCHANGED <<source_attr, held, transform_func, derive_func>>

\* a bug _TransformProperty.__set__ could have: it stores the value as
\* db.Property.__set__ does
TransformSetStores(value) ==
  /\ t_op' = "set_transform"
  /\ t_result' = Raised("DerivedPropertyError")
  /\ t_invoked' = FALSE
  /\ transformed_attr' = value
  /\ UNCHANGED <<source_attr, orig_attr, held, transform_func, derive_func>>

\* _TransformProperty.__set__: instance.transform = value
TransformSet(value) ==
  /\ t_op' = "set_transform"
  /\ t_result' = Raised("DerivedPropertyError")
  /\ t_invoked' = FALSE
  /\ UNCHANGED <<source_attr, orig_attr, transformed_attr, held,
                 transform_func, derive_func>>

\* what _DerivedProperty.__get__ returns in the current state
DerivedRead == Returned(derive_func[source_attr])

\* _DerivedProperty.__get__: value = instance.derived
DerivedGet ==
  /\ t_op' = "get_derived"
  /\ t_result' = DerivedRead
  /\ t_invoked' = FALSE
  /\ UNCHANGED <<source_attr, orig_attr, transformed_attr, held,
                 transform_func, derive_func>>

\* _DerivedProperty.__set__: instance.derived = value
DerivedSet(value) ==
  /\ t_op' = "set_derived"
  /\ t_result' = Raised("DerivedPropertyError")
  /\ t_invoked' = FALSE
  /\ UNCHANGED <<source_attr, orig_attr, transformed_attr, held,
                 transform_func, derive_func>>

(***************************************************************************)
(* ChoiceProperty and make_choice_property                                 *)
(***************************************************************************)
MaxChoices == 3

\* the values a program offers as choices or assigns to the property
Choices == {"red", "green", "blue"}

\* values a choices dictionary may hold: ints, and a value that is no int
IntV(i) == [t |-> "int", n |-> i]
CodeValues == {IntV(0), IntV(1), IntV(4), [t |-> "str", n |-> 1]}

Range(f) == {f[x] : x \in DOMAIN f}

ListArgs == UNION {[1..n -> Choices] : n \in 0..MaxChoices}
DictArgs == UNION {[S -> CodeValues] : S \in SUBSET Choices}
ChoicesArgs ==
  {[kind |-> "list", val |-> l] : l \in ListArgs}
    \cup {[kind |-> "dict", val |-> d] : d \in DictArgs}
    \cup {[kind |-> "NoneType", val |-> <<>>]}

ChoiceClass(i2c, c2i, dt) ==
  [ok |-> TRUE, err |-> "", INDEX_TO_CHOICE |-> i2c, CHOICE_TO_INDEX |-> c2i,
   data_type |-> dt]
ChoiceError(e) ==
  [ok |-> FALSE, err |-> e, INDEX_TO_CHOICE |-> <<>>, CHOICE_TO_INDEX |-> <<>>,
   data_type |-> ""]

\* a bug make_choice_property could have: list positions counted from 1
EnumerateDictFromOne(l) ==
  [c \in Range(l) |->
     IntV(CHOOSE i \in DOMAIN l :
            l[i] = c /\ \A j \in DOMAIN l : l[j] = c => j <= i)]

\* dict((c, i) for i, c in enumerate(choices)): a later position of the same
\* element replaces an earlier one
EnumerateDict(l) ==
  [c \in Range(l) |->
     IntV((CHOOSE i \in DOMAIN l :
             l[i] = c /\ \A j \in DOMAIN l : l[j] = c => j <= i) - 1)]

\* the list `choices` as the table INDEX_TO_CHOICE, indexed from 0
ListTable(l) == [k \in {IntV(i - 1) : i \in DOMAIN l} |-> l[k.n + 1]]

\* dict((v, k) for k, v in choices.iteritems()): for a value held by several
\* keys, the key that iteration reaches last stays; iteration order is the
\* dictionary's own, so any of them may
InvertDict(d) == {f \in [Range(d) -> DOMAIN d] : \A v \in Range(d) : d[f[v]] = v}

\* make_choice_property(cls_name, choices): the classes it may return, or
\* the exception it raises
MakeChoiceOutcomes(arg) ==
  IF arg.kind = "list"
  THEN IF Len(arg.val) = 0
       THEN {ChoiceError("IndexError")}           \* i2c[0] of an empty list
       ELSE {ChoiceClass(ListTable(arg.val), EnumerateDict(arg.val), "str")}
  ELSE IF arg.kind = "dict"
  THEN IF \E v \in Range(arg.val) : v.t # "int"
       THEN {ChoiceError("TypeError")}
       ELSE IF IntV(0) \notin Range(arg.val)
       THEN {ChoiceError("KeyError")}             \* i2c[0] of a dict without 0
       ELSE {ChoiceClass(i2c, arg.val, "str") : i2c \in InvertDict(arg.val)}
  ELSE {ChoiceError("TypeError")}

InitChoice ==
  /\ choices_arg \in ChoicesArgs
  /\ choice_cls = <<>>
  /\ c_pc = "start"
  /\ c_index = None
  /\ c_assigned = ""
  /\ c_op = "init"
  /\ c_result = NoResult

\* ColorChoiceProp = make_choice_property('ColorChoiceProp', choices)
MakeChoiceProperty ==
  /\ c_pc = "start"
  /\ \E outcome \in MakeChoiceOutcomes(choices_arg) :
       /\ choice_cls' = outcome
       /\ c_pc' = IF outcome.ok THEN "built" ELSE "failed"
       /\ c_result' = IF outcome.ok THEN NoResult ELSE Raised(outcome.err)
  /\ c_op' = "make_choice_property"
  /\ UNCHANGED <<choices_arg, c_index, c_assigned>>

\* a bug ChoiceProperty.__set__ could have: CHOICE_TO_INDEX.get(value), so
\* that a value that is no choice stores None before the error is raised
ChoiceStoreUnchecked(value) ==
  IF value \in DOMAIN choice_cls.CHOICE_TO_INDEX
  THEN /\ c_index' = choice_cls.CHOICE_TO_INDEX[value]
       /\ c_result' = NoResult
  ELSE /\ c_index' = None
       /\ c_result' = Raised("BadValueError")

\* the body of ChoiceProperty.__set__: c2i, then db.Property.__set__ stores
\* the index
ChoiceStore(value) ==
  IF value \in DOMAIN choice_cls.CHOICE_TO_INDEX
  THEN /\ c_index' = choice_cls.CHOICE_TO_INDEX[value]
       /\ c_result' = NoResult
  ELSE /\ c_index' = c_index
       /\ c_result' = Raised("BadValueError")

\* model = ChoiceModel(a_choice=value): db.Model.__init__ calls the
\* property's __set__; when that raises there is no instance
Construct(value) ==
  /\ c_pc = "built"
  /\ ChoiceStore(value)
  /\ c_pc' = IF value \in DOMAIN choice_cls.CHOICE_TO_INDEX
             THEN "instance" ELSE "built"
  /\ c_op' = "construct"
  /\ c_assigned' = value
  /\ UNCHANGED <<choices_arg, choice_cls>>

\* ChoiceProperty.__set__: model.a_choice = value
ChoiceSet(value) ==
  /\ c_pc = "instance"
  /\ ChoiceStore(value)
  /\ c_op' = "set"
  /\ c_assigned' = value
  /\ UNCHANGED <<choices_arg, choice_cls, c_pc>>

\* INDEX_TO_CHOICE[index]
IndexToChoice(index) ==
  IF index \in DOMAIN choice_cls.INDEX_TO_CHOICE
  THEN Returned(choice_cls.INDEX_TO_CHOICE[index])
  ELSE Raised(IF choices_arg.kind = "dict" THEN "KeyError"
              ELSE IF index = None THEN "TypeError" ELSE "IndexError")

\* ChoiceProperty.__get__: model.a_choice
ChoiceGet ==
  /\ c_pc = "instance"
  /\ c_result' = IndexToChoice(c_index)
  /\ c_op' = "get"
  /\ UNCHANGED <<choices_arg, choice_cls, c_pc, c_index, c_assigned>>

\* ChoiceProperty.get_value_for_datastore(model)
ChoiceGetValueForDatastore ==
  /\ c_pc = "instance"
  /\ c_result' = Returned(c_index)
  /\ c_op' = "get_value_for_datastore"
  /\ UNCHANGED <<choices_arg, choice_cls, c_pc, c_index, c_assigned>>

\* ChoiceProperty.make_value_from_datastore(value), on the stored value
ChoiceMakeValueFromDatastore ==
  /\ c_pc = "instance"
  /\ c_result' = IF c_index = None THEN Returned(None) ELSE IndexToChoice(c_index)
  /\ c_op' = "make_value_from_datastore"
  /\ UNCHANGED <<choices_arg, choice_cls, c_pc, c_index, c_assigned>>

AssignedValues == Choices \cup {"purple"}

(***************************************************************************)
(* CurrentDomainProperty                                                   *)
(***************************************************************************)
Domains == {"domain1", "domain2", "domain3"}

\* the values a program assigns: a domain, or a false value (None, '')
DomainValues == Domains \cup {""}

\* model = DomainModel(): db.Model.__init__ assigns the default, None, and
\* __set__ replaces it by the current host
InitDomain ==
  /\ http_host \in Domains
  /\ is_admin \in BOOLEAN
  /\ allow_read \in BOOLEAN
  /\ allow_write \in BOOLEAN
  /\ domain_attr = http_host
  /\ persisted = ""
  /\ d_op = "init"
  /\ d_result = NoResult

\* the test of CurrentDomainProperty.__set__ that raises InvalidDomainError
SetRefused(value) ==
  value # "" /\ value # http_host /\ ~allow_read /\ ~is_admin

\* CurrentDomainProperty.__set__: model.domain = value
DomainSet(value) ==
  /\ d_op' = "set"
  /\ IF SetRefused(value)
     THEN /\ d_result' = Raised("InvalidDomainError")
          /\ domain_attr' = domain_attr
     ELSE /\ d_result' = NoResult
          /\ domain_attr' = IF value = "" THEN http_host ELSE value
  /\ UNCHANGED <<http_host, is_admin, allow_read, allow_write, persisted>>

\* a bug get_value_for_datastore could have: allow_read taken for allow_write
WriteRefusedByReadFlag == domain_attr # http_host /\ ~is_admin /\ ~allow_read

\* the test of get_value_for_datastore that raises InvalidDomainError
WriteRefused == domain_attr # http_host /\ ~is_admin /\ ~allow_write

\* model.put(): CurrentDomainProperty.get_value_for_datastore, and the
\* datastore write of the value it returns
DomainPut ==
  /\ d_op' = "put"
  /\ IF WriteRefused
     THEN /\ d_result' = Raised("InvalidDomainError")
          /\ persisted' = persisted
     ELSE /\ d_result' = Returned(domain_attr)
          /\ persisted' = domain_attr
  /\ UNCHANGED <<http_host, is_admin, allow_read, allow_write, domain_attr>>

\* model = DomainModel.get(key): db.Model.__init__ assigns the stored domain
\* through __set__; when that raises the program keeps the instance it had
DomainLoad ==
  /\ persisted # ""
  /\ d_op' = "load"
  /\ IF SetRefused(persisted)
     THEN /\ d_result' = Raised("InvalidDomainError")
          /\ domain_attr' = domain_attr
     ELSE /\ d_result' = NoResult
          /\ domain_attr' = persisted
  /\ UNCHANGED <<http_host, is_admin, allow_read, allow_write, persisted>>

\* os.environ['HTTP_HOST'] = host: a request to another host
ChangeHost(host) ==
  /\ http_host' = host
  /\ d_op' = "change_host"
  /\ d_result' = NoResult
  /\ UNCHANGED <<is_admin, allow_read, allow_write, domain_attr, persisted>>

\* os.environ['USER_IS_ADMIN'] = '1' or '0'
SetAdmin(flag) ==
  /\ is_admin' = flag
  /\ d_op' = "set_admin"
  /\ d_result' = NoResult
  /\ UNCHANGED <<http_host, allow_read, allow_write, domain_attr, persisted>>

(***************************************************************************)
(* prettydata: prettify and its generators                                 *)
(*                                                                         *)
(* A Python string is the sequence of its characters.  A value is a record *)
(* of its type t, its number n (int, long), its text s (str, unicode), and *)
(* for a container its items, with the keys beside them for a dict: the    *)
(* order of keys and items is the order d.items() returns them in.         *)
(***************************************************************************)
MaxDepth == 2
DefaultIndent == 4

Scalar(t, n, s) == [t |-> t, n |-> n, s |-> s, keys |-> <<>>, items |-> <<>>]
Dict(keys, items) == [t |-> "dict", n |-> 0, s |-> <<>>, keys |-> keys, items |-> items]
List(items) == [t |-> "list", n |-> 0, s |-> <<>>, keys |-> <<>>, items |-> items]
Tuple(items) == [t |-> "tuple", n |-> 0, s |-> <<>>, keys |-> <<>>, items |-> items]

DictKeys == {1, 2}

\* pairs of equal values: the same value twice, or 1 and 1L, or 'a' and u'a'
LeafPairs ==
  {<<Scalar("int", 1, <<>>), Scalar("int", 1, <<>>)>>,
   <<Scalar("int", 1, <<>>), Scalar("long", 1, <<>>)>>,
   <<Scalar("unicode", 0, <<"a">>), Scalar("str", 0, <<"a">>)>>,
   <<Dict(<<>>, <<>>), Dict(<<>>, <<>>)>>,
   <<List(<<>>), List(<<>>)>>,
   <<Tuple(<<>>), Tuple(<<>>)>>}
SiblingPairs ==
  {<<Scalar("long", 2, <<>>), Scalar("int", 2, <<>>)>>,
   <<Dict(<<>>, <<>>), Dict(<<>>, <<>>)>>,
   <<Tuple(<<>>), Tuple(<<>>)>>}

RECURSIVE Concat(_)
Concat(ss) == IF ss = <<>> THEN <<>> ELSE Head(ss) \o Concat(Tail(ss))

\* ' ' * k
Spaces(k) == [i \in 1..k |-> " "]

\* repr of an int
RECURSIVE ReprInt(_)
ReprInt(k) ==
  IF k < 10 THEN <<ToString(k)>> ELSE ReprInt(k \div 10) \o <<ToString(k % 10)>>

\* repr(v) of lines 60-68: u'' and L are taken out
ReprScalar(v) ==
  IF v.t \in {"int", "long"} THEN ReprInt(v.n) ELSE <<"'">> \o v.s \o <<"'">>

\* what a generator yields: a string, or the generator
\* _pretty_merge_value(v, indent, nest_level)
YieldStr(chars) == [gen |-> FALSE, str |-> chars, v |-> List(<<>>), nest |-> 0]
YieldGen(v, nest_level) == [gen |-> TRUE, str |-> <<>>, v |-> v, nest |-> nest_level]

\* a bug pretty_dict could have: the items are not sorted
NotSorted(keys) == [i \in 1..Len(keys) |-> i]

\* sorted_items.sort(key=lambda x: x[0]): the positions of d.items() in the
\* order the sort leaves them
RECURSIVE SortPositions(_, _)
SortPositions(keys, left) ==
  IF left = {} THEN <<>>
  ELSE LET m == CHOOSE i \in left : \A j \in left : keys[i] <= keys[j]
       IN <<m>> \o SortPositions(keys, left \ {m})
SortedItems(keys) == SortPositions(keys, 1..Len(keys))

\* pretty_dict(d, indent, nest_level): the sequence of what it yields
PrettyDict(d, indent, nest_level) ==
  IF Len(d.items) = 0 THEN <<YieldStr(<<"{", "}">>)>>
  ELSE LET order == SortedItems(d.keys)
           entry(i) ==
             (IF i = 1 THEN <<>> ELSE <<YieldStr(<<",", "\n">>)>>)
               \o <<YieldStr(Spaces(indent * nest_level)
                               \o ReprInt(d.keys[order[i]]) \o <<":", " ">>),
                    YieldGen(d.items[order[i]], nest_level)>>
       IN <<YieldStr(<<"{", "\n">>)>>
            \o Concat([i \in 1..Len(order) |-> entry(i)])
            \o <<YieldStr(<<"\n">>),
                 YieldStr(Spaces(indent * (nest_level - 1)) \o <<"}">>)>>

\* pretty_list(l, indent, nest_level): the sequence of what it yields
PrettyList(l, indent, nest_level) ==
  IF Len(l.items) = 0
  THEN <<YieldStr(IF l.t = "list" THEN <<"[", "]">>
                  ELSE <<"t", "u", "p", "l", "e", "(", ")">>)>>
  ELSE LET entry(i) ==
             (IF i = 1 THEN <<>> ELSE <<YieldStr(<<",", "\n">>)>>)
               \o <<YieldStr(Spaces(indent * nest_level)),
                    YieldGen(l.items[i], nest_level)>>
       IN <<YieldStr(IF l.t = "list" THEN <<"[", "\n">> ELSE <<"(", "\n">>)>>
            \o Concat([i \in 1..Len(l.items) |-> entry(i)])
            \o <<YieldStr(<<"\n">>),
                 YieldStr(Spaces(indent * (nest_level - 1))),
                 YieldStr(IF l.t = "list" THEN <<"]">> ELSE <<")">>)>>

\* list_pretty_iterator(_pretty_merge_value(v, indent, nest_level)): a list
\* of strings.  _pretty_merge_value yields one thing: the generator of a
\* dict, list or tuple, whose strings list_pretty_iterator takes apart into
\* their characters, or the repr of a scalar, which it appends whole.
RECURSIVE ListPrettyIterator(_, _, _)
ListPrettyIterator(v, indent, nest_level) ==
  LET chars(str) == [i \in 1..Len(str) |-> <<str[i]>>]
      each(y) == IF y.gen THEN ListPrettyIterator(y.v, indent, y.nest)
                 ELSE chars(y.str)
      all(ys) == Concat([i \in 1..Len(ys) |-> each(ys[i])])
  IN IF v.t = "dict" THEN all(PrettyDict(v, indent, nest_level + 1))
     ELSE IF v.t \in {"list", "tuple"} THEN all(PrettyList(v, indent, nest_level + 1))
     ELSE <<ReprScalar(v)>>

\* prettify(data, indent=4, nest_level=0)
Prettify(v) == ListPrettyIterator(v, DefaultIndent, 0)

InitPretty ==
  /\ \E pair \in LeafPairs : data = pair[1] /\ data2 = pair[2]
  /\ p_depth = 0
  /\ p_pc = "build"
  /\ out = <<>>
  /\ out2 = <<>>

\* the caller puts the value into a dict, alone or beside another entry;
\* the equal dict data2 may hold its entries in the other order
WrapDict ==
  /\ p_pc = "build" /\ p_depth < MaxDepth
  /\ \E k \in DictKeys :
       \/ /\ data' = Dict(<<k>>, <<data>>)
          /\ data2' = Dict(<<k>>, <<data2>>)
       \/ \E k2 \in DictKeys \ {k}, sib \in SiblingPairs, swap \in BOOLEAN :
            LET lo == IF k < k2 THEN k ELSE k2
                hi == IF k < k2 THEN k2 ELSE k
                val(key, d, which) == IF key = k THEN d ELSE sib[which]
            IN /\ data' = Dict(<<lo, hi>>, <<val(lo, data, 1), val(hi, data, 1)>>)
               /\ data2' = IF swap
                           THEN Dict(<<hi, lo>>, <<val(hi, data2, 2), val(lo, data2, 2)>>)
                           ELSE Dict(<<lo, hi>>, <<val(lo, data2, 2), val(hi, data2, 2)>>)
  /\ p_depth' = p_depth + 1
  /\ UNCHANGED <<p_pc, out, out2>>

\* the caller puts the value into a list or a tuple, alone or with another
\* element before or after it
WrapList ==
  /\ p_pc = "build" /\ p_depth < MaxDepth
  /\ \E make \in {"list", "tuple"} :
       LET seq(items) == IF make = "list" THEN List(items) ELSE Tuple(items)
       IN \/ data' = seq(<<data>>) /\ data2' = seq(<<data2>>)
          \/ \E sib \in SiblingPairs :
               \/ data' = seq(<<data, sib[1]>>) /\ data2' = seq(<<data2, sib[2]>>)
               \/ data' = seq(<<sib[1], data>>) /\ data2' = seq(<<sib[2], data2>>)
  /\ p_depth' = p_depth + 1
  /\ UNCHANGED <<p_pc, out, out2>>

\* out = prettify(data); out2 = prettify(data2)
CallPrettify ==
  /\ p_pc = "build"
  /\ out' = Prettify(data)
  /\ out2' = Prettify(data2)
  /\ p_pc' = "done"
  /\ UNCHANGED <<data, data2, p_depth>>

(***************************************************************************)
(* The specifications.  Each runs one component; the variables of the      *)
(* others stay at an idle value.                                           *)
(***************************************************************************)
IdleTransform ==
  /\ source_attr = None
  /\ orig_attr = Absent
  /\ transformed_attr = Absent
  /\ transform_func = <<>>
  /\ derive_func = <<>>
  /\ t_op = "idle"
  /\ t_result = NoResult
  /\ t_invoked = FALSE
  /\ held = {}

IdleChoice ==
  /\ choices_arg = <<>>
  /\ choice_cls = <<>>
  /\ c_pc = "idle"
  /\ c_index = None
  /\ c_assigned = ""
  /\ c_op = "idle"
  /\ c_result = NoResult

IdleDomain ==
  /\ http_host = ""
  /\ is_admin = FALSE
  /\ allow_read = FALSE
  /\ allow_write = FALSE
  /\ domain_attr = ""
  /\ persisted = ""
  /\ d_op = "idle"
  /\ d_result = NoResult

IdlePretty ==
  /\ data = <<>>
  /\ data2 = <<>>
  /\ p_depth = 0
  /\ p_pc = "idle"
  /\ out = <<>>
  /\ out2 = <<>>

Init == InitTransform /\ IdleChoice /\ IdleDomain /\ IdlePretty
Next ==
  \/ (\E v \in SourceValues : SetSource(v)) /\ UNCHANGED <<cvars, dvars, pvars>>
  \/ TransformGet /\ UNCHANGED <<cvars, dvars, pvars>>
  \/ (\E v \in Outputs : TransformSet(v)) /\ UNCHANGED <<cvars, dvars, pvars>>
  \/ DerivedGet /\ UNCHANGED <<cvars, dvars, pvars>>
  \/ (\E v \in Outputs : DerivedSet(v)) /\ UNCHANGED <<cvars, dvars, pvars>>
Spec == Init /\ [][Next]_vars

InitC == InitChoice /\ IdleTransform /\ IdleDomain /\ IdlePretty
NextC ==
  \/ MakeChoiceProperty /\ UNCHANGED <<tvars, dvars, pvars>>
  \/ (\E v \in AssignedValues : Construct(v)) /\ UNCHANGED <<tvars, dvars, pvars>>
  \/ (\E v \in AssignedValues : ChoiceSet(v)) /\ UNCHANGED <<tvars, dvars, pvars>>
  \/ ChoiceGet /\ UNCHANGED <<tvars, dvars, pvars>>
  \/ ChoiceGetValueForDatastore /\ UNCHANGED <<tvars, dvars, pvars>>
  \/ ChoiceMakeValueFromDatastore /\ UNCHANGED <<tvars, dvars, pvars>>
SpecChoice == InitC /\ [][NextC]_vars

InitD == InitDomain /\ IdleTransform /\ IdleChoice /\ IdlePretty
NextD ==
  \/ (\E v \in DomainValues : DomainSet(v)) /\ UNCHANGED <<tvars, cvars, pvars>>
  \/ DomainPut /\ UNCHANGED <<tvars, cvars, pvars>>
  \/ DomainLoad /\ UNCHANGED <<tvars, cvars, pvars>>
  \/ (\E h \in Domains : ChangeHost(h)) /\ UNCHANGED <<tvars, cvars, pvars>>
  \/ (\E b \in BOOLEAN : SetAdmin(b)) /\ UNCHANGED <<tvars, cvars, pvars>>
SpecDomain == InitD /\ [][NextD]_vars

InitP == InitPretty /\ IdleTransform /\ IdleChoice /\ IdleDomain
NextP ==
  \/ WrapDict /\ UNCHANGED <<tvars, cvars, dvars>>
  \/ WrapList /\ UNCHANGED <<tvars, cvars, dvars>>
  \/ CallPrettify /\ UNCHANGED <<tvars, cvars, dvars>>
SpecPretty == InitP /\ [][NextP]_vars

(***************************************************************************)
(* Claims about TransformProperty and DerivedProperty (under Spec)         *)
(***************************************************************************)

\* C1: every read of the transform property returns transform_func applied
\* to the source property's current value; no read fails and no read
\* returns a value computed from an earlier source value.
C1_ReadReturnsTransformOfCurrent ==
  t_op = "get_transform" => t_result = Returned(transform_func[source_attr])

\* C2: a read invokes transform_func only if the source's current value
\* differs from the value recorded at the last computation (or none is
\* recorded); when the recorded value is the current one the read returns
\* the cached output without invoking transform_func; two consecutive
\* reads invoke it at most once; the recorded pair is (v, transform_func(v))
\* for a value v the source has held.
C2_RecomputeOnlyOnChange ==
  [][ /\ (t_op' = "get_transform" /\ t_invoked')
         => (orig_attr = Absent \/ orig_attr # source_attr)
      /\ (t_op' = "get_transform" /\ orig_attr # Absent /\ orig_attr = source_attr)
         => (~t_invoked' /\ t_result' = Returned(transformed_attr))
      /\ (t_op = "get_transform" /\ t_op' = "get_transform")
         => ~(t_invoked /\ t_invoked')
      /\ \/ orig_attr' = Absent /\ transformed_attr' = Absent
         \/ /\ orig_attr' \in held'
            /\ transformed_attr' = transform_func'[orig_attr']
    ]_vars

\* C2 witness: after the source has changed, a read is served from the cache
C2_Witness ==
  /\ t_op = "get_transform"
  /\ ~t_invoked
  /\ Cardinality(held) >= 2
  /\ orig_attr = source_attr
  /\ t_result = Returned(transformed_attr)

\* C3: the transformed value is calculated when the source property is set,
\* not when the TransformProperty is fetched: every assignment to the source
\* invokes transform_func and no fetch does.
C3_ComputedWhenSourceIsSet ==
  /\ t_op = "set_source" => t_invoked
  /\ t_op = "get_transform" => ~t_invoked

\* C4: assigning to a DerivedProperty or a TransformProperty raises
\* DerivedPropertyError and leaves the source, the cached input and the
\* cached output as they were, so a following read returns what it would
\* have returned without the assignment.
C4_AssignmentRaisesAndChangesNothing ==
  [][ t_op' \in {"set_transform", "set_derived"}
      => /\ t_result' = Raised("DerivedPropertyError")
         /\ UNCHANGED <<source_attr, orig_attr, transformed_attr>>
         /\ TransformRead' = TransformRead
         /\ DerivedRead' = DerivedRead
    ]_vars

\* C4 witness: an assignment to the transform property was rejected on an
\* instance whose cache is populated
C4_Witness ==
  /\ t_op = "set_transform"
  /\ t_result = Raised("DerivedPropertyError")
  /\ orig_attr # Absent
  /\ transformed_attr # Absent

(***************************************************************************)
(* Claims about ChoiceProperty (under SpecChoice)                          *)
(***************************************************************************)
ClassBuilt == c_pc \in {"built", "instance"}

\* the tables are mutually inverse on the choices
TablesInverse ==
  LET c2i == choice_cls.CHOICE_TO_INDEX
      i2c == choice_cls.INDEX_TO_CHOICE
  IN /\ \A c \in DOMAIN c2i : c2i[c] \in DOMAIN i2c /\ i2c[c2i[c]] = c
     /\ \A i \in DOMAIN i2c : i2c[i] \in DOMAIN c2i /\ c2i[i2c[i]] = i

\* a list encodes the element at position i (from 0) as i
ListEncodedByPosition ==
  choices_arg.kind = "list"
    => \A i \in DOMAIN choices_arg.val :
         choice_cls.CHOICE_TO_INDEX[choices_arg.val[i]] = IntV(i - 1)

\* a successful assignment of c stores c2i(c)
AssignmentStoresIndex ==
  (c_op \in {"construct", "set"} /\ c_result = NoResult)
    => c_index = choice_cls.CHOICE_TO_INDEX[c_assigned]

\* after an assignment of c: a read returns c, get_value_for_datastore
\* returns c2i(c) and make_value_from_datastore(c2i(c)) returns c
RoundTripStep ==
  (c_op \in {"construct", "set"} /\ c_result = NoResult)
    => /\ c_op' \in {"get", "make_value_from_datastore"}
          => c_result'.kind = "return" /\ c_result'.val = c_assigned
       /\ c_op' = "get_value_for_datastore"
          => /\ c_result'.kind = "return"
             /\ c_result'.val = choice_cls.CHOICE_TO_INDEX[c_assigned]

\* the list's elements are distinct, the dictionary's values are unique
UniqueChoices ==
  \A a, b \in DOMAIN choices_arg.val :
    choices_arg.val[a] = choices_arg.val[b] => a = b

\* C5 as stated: for every class make_choice_property builds, the tables
\* are mutually inverse, a list encodes position i as i, an assignment of
\* c stores c2i(c), and a read, get_value_for_datastore and
\* make_value_from_datastore round-trip.
C5_AnyClassRoundTrips ==
  /\ [](ClassBuilt => TablesInverse /\ ListEncodedByPosition /\ AssignmentStoresIndex)
  /\ [][ClassBuilt => RoundTripStep]_vars

\* C5 amended: the same, for a class built from a list of distinct elements
\* or a dictionary of unique values.
C5_UniqueChoicesRoundTrip ==
  /\ []((ClassBuilt /\ UniqueChoices)
          => TablesInverse /\ ListEncodedByPosition /\ AssignmentStoresIndex)
  /\ [][(ClassBuilt /\ UniqueChoices) => RoundTripStep]_vars

\* C5 witness: with a dictionary whose codes are not 0..N-1, a choice coded
\* 4 was assigned and read back
C5_Witness ==
  /\ c_pc = "instance"
  /\ choices_arg.kind = "dict"
  /\ UniqueChoices
  /\ c_index = IntV(4)
  /\ c_op = "get"
  /\ c_result.kind = "return"
  /\ c_result.val = c_assigned

\* C6: an assignment of a value that is no key of CHOICE_TO_INDEX raises
\* BadValueError and leaves the stored index unchanged; the stored index is
\* always a key of INDEX_TO_CHOICE and a read never fails.
C6_RejectedAssignmentKeepsIndex ==
  /\ [][ (c_op' \in {"construct", "set"}
            /\ c_assigned' \notin DOMAIN choice_cls.CHOICE_TO_INDEX)
         => (c_result' = Raised("BadValueError") /\ c_index' = c_index) ]_vars
  /\ [](c_pc = "instance" => c_index \in DOMAIN choice_cls.INDEX_TO_CHOICE)
  /\ [](c_op = "get" => c_result.kind = "return")

\* C6 witness: an instance rejected an assignment and was then read
C6_Witness ==
  /\ c_pc = "instance"
  /\ c_assigned \notin DOMAIN choice_cls.CHOICE_TO_INDEX
  /\ c_op = "get"
  /\ c_result.kind = "return"

\* C7: make_choice_property accepts every (non-empty) dictionary of unique
\* int values, also one in which no choice is encoded as 0, and returns a
\* class whose CHOICE_TO_INDEX is the dictionary and whose INDEX_TO_CHOICE
\* is its inverse; it raises TypeError only for a value that is no int or
\* for choices that are neither a list nor a dictionary.
C7_AcceptsAnyUniqueIntDict ==
  c_pc \notin {"start", "idle"} =>
    /\ (/\ choices_arg.kind = "dict"
        /\ DOMAIN choices_arg.val # {}
        /\ \A v \in Range(choices_arg.val) : v.t = "int"
        /\ UniqueChoices)
       => /\ choice_cls.ok
          /\ choice_cls.CHOICE_TO_INDEX = choices_arg.val
          /\ TablesInverse
    /\ (~choice_cls.ok /\ choice_cls.err = "TypeError")
       => \/ choices_arg.kind \notin {"list", "dict"}
          \/ /\ choices_arg.kind = "dict"
             /\ \E v \in Range(choices_arg.val) : v.t # "int"

(***************************************************************************)
(* Claims about CurrentDomainProperty (under SpecDomain)                   *)
(***************************************************************************)

\* C8: with allow_read and allow_write False and a user who is no admin,
\* no assignment to the property and no change of HTTP_HOST changes the
\* domain the property holds; an assignment raises InvalidDomainError or
\* leaves the value as it was.
C8_DomainNeverChanges ==
  [][ (~allow_read /\ ~allow_write /\ ~is_admin /\ ~is_admin'
         /\ d_op' \in {"set", "change_host"})
      => domain_attr' = domain_attr ]_vars

\* C9: get_value_for_datastore raises InvalidDomainError when the entity's
\* domain differs from HTTP_HOST, the user is no admin and allow_write is
\* False, and nothing is written; otherwise it returns the entity's domain
\* unchanged and that domain is written.  So with a non-admin user and
\* allow_write False a put never writes a domain other than the host.
C9_WriteGuardedByHost ==
  [][ d_op' = "put"
      => /\ IF domain_attr # http_host /\ ~is_admin /\ ~allow_write
            THEN d_result' = Raised("InvalidDomainError") /\ persisted' = persisted
            ELSE d_result' = Returned(domain_attr) /\ persisted' = domain_attr
         /\ domain_attr' = domain_attr
         /\ (~is_admin /\ ~allow_write /\ persisted' # persisted)
            => persisted' = http_host
    ]_vars

\* C9 witness: a put from another host by a non-admin was refused although
\* allow_read is set, and the stored entity kept its domain
C9_Witness ==
  /\ d_op = "put"
  /\ d_result = Raised("InvalidDomainError")
  /\ domain_attr # http_host
  /\ allow_read /\ ~allow_write /\ ~is_admin
  /\ persisted = domain_attr

(***************************************************************************)
(* Claims about prettify (under SpecPretty)                                *)
(***************************************************************************)

\* the positions of the output that hold a dict key: the next element is ':'
KeyPositions(o) == {i \in 1..(Len(o) - 1) : o[i + 1] = <<":">>}

\* the number of spaces that precede position i of the output
RECURSIVE SpacesBefore(_, _)
SpacesBefore(o, i) ==
  IF i > 1 /\ o[i - 1] = <<" ">> THEN 1 + SpacesBefore(o, i - 1) ELSE 0

KeyAt(o, i) == CHOOSE k \in DictKeys : ReprInt(k) = o[i]

\* in the output, the keys at one depth of indentation ascend
KeysAscend(o) ==
  \A i, j \in KeyPositions(o) :
    (i < j /\ SpacesBefore(o, i) = SpacesBefore(o, j)) => KeyAt(o, i) < KeyAt(o, j)

====
